---- MODULE Spec2Model ----
(***************************************************************************)
(* Model of the ticket monitor: the sold-out classifier                    *)
(* (ticket_checker.py), the continuous monitor with its notification       *)
(* cooldown (main.py) and the single-check script (check_once.py), with    *)
(* the LINE broadcast call (push.py) as the Notifier.                      *)
(*                                                                         *)
(* Python's Optional values are written as sequences: <<>> is None and     *)
(* <<v>> is the value v.  A text is the sequence of its characters.        *)
(***************************************************************************)
EXTENDS Integers, Sequences, FiniteSets, TLC

VARIABLES
    program,                 \* which script runs: "main" or "check_once"
    env,                     \* the environment variables that are set
    pc,                      \* the controller's position
    exit_code,               \* <<>> while running, <<c>> once the process ended
    clock,                   \* the wall clock, in seconds
    line_token,              \* TicketMonitor.line_token (TRUE: a token is held)
    last_notification_time,  \* TicketMonitor.last_notification_time
    result,                  \* <<r>>: what check_ticket_status returned in the
                             \* last step; <<>> if that step made no check
    send,                    \* what the last step did about notifying
    cycles,                  \* number of check cycles started (page fetches)
    notifier_calls,          \* number of calls of send_line_broadcast
    delivered,               \* the times of the deliveries that succeeded
    depth,                   \* active activations of start_monitoring
    unexpected,              \* <<c>>: an error of class c was raised in the
                             \* last step (by a call into a library, or
                             \* KeyboardInterrupt by the user's interrupt)
    errors,                  \* errors caught by start_monitoring so far
    browser,                 \* the browser handle of the last fetch: "none",
                             \* "open" or "closed"
    applied,                 \* the function of ticket_checker.py applied
    input,                   \* <<x>>: the argument it was applied to
    output                   \* <<y>>: what it returned

vars == <<program, env, pc, exit_code, clock, line_token,
          last_notification_time, result, send, cycles, notifier_calls,
          delivered, depth, unexpected, errors, browser, applied, input,
          output>>

\* The variables of a direct use of ticket_checker.py
lib == <<applied, input, output>>

----------------------------------------------------------------------------
(* Bounds of the model *)

MaxCycles == 3
MaxElements == 2
MaxClassified == 3

----------------------------------------------------------------------------
(* ticket_checker.py *)

\* '完売しました': each character is written by its reading
\* (kan bai shi ma shi ta); the other characters of the sample texts likewise.
sold_out_text == <<"kan", "bai", "shi", "ma", "shi", "ta">>

\* Mutant of Contains: the marker must open the text (str.startswith)
Contains_Prefix(text, marker) ==
    /\ Len(text) >= Len(marker)
    /\ SubSeq(text, 1, Len(marker)) = marker

\* Python's `marker in text` on strings
Contains(text, marker) ==
    \E i \in 0..(Len(text) - Len(marker)) :
        SubSeq(text, i + 1, i + Len(marker)) = marker

\* str.strip(): leading and trailing white space removed
RECURSIVE LStrip(_)
LStrip(s) == IF s # <<>> /\ Head(s) = " " THEN LStrip(Tail(s)) ELSE s

RECURSIVE RStrip(_)
RStrip(s) ==
    IF s # <<>> /\ s[Len(s)] = " " THEN RStrip(SubSeq(s, 1, Len(s) - 1)) ELSE s

Strip(s) == RStrip(LStrip(s))

\* What the page shows for one element of the target class: its tag and its
\* inner text.
InnerTexts ==
    { <<"kou", "en", "A", ":", " ", "kan", "bai", "shi", "ma", "shi", "ta">>,
      <<" ", "noko", "ri", "1", "0", "mai", " ">>,
      <<"kan", "bai", "shi", "ma", "shi">> }

PageElements == { [tag_name |-> "DIV", inner_text |-> t] : t \in InnerTexts }

RECURSIVE SeqsUpTo(_, _)
SeqsUpTo(S, n) ==
    IF n = 0 THEN { <<>> }
    ELSE LET shorter == SeqsUpTo(S, n - 1)
         IN  shorter \cup { Append(s, x) : s \in { t \in shorter : Len(t) = n - 1 }, x \in S }

\* The outcomes of one page fetch: the browser set-up raises before the try
\* block (an error of some class), the navigation or the extraction raises
\* inside it, or the selector matches the elements of `found`.
ErrorClasses == { "Exception", "ValueError" }

Fetches ==
    { [kind |-> "raise", class |-> c, found |-> <<>>] : c \in ErrorClasses }
    \cup { [kind |-> "error", class |-> "Exception", found |-> <<>>] }
    \cup { [kind |-> "page", class |-> "Exception", found |-> p] :
             p \in SeqsUpTo(PageElements, MaxElements) }

ToLower(tag) == IF tag = "DIV" THEN "div" ELSE tag

ElementData(el) ==
    [tag_name |-> ToLower(el.tag_name), text |-> Strip(el.inner_text)]

\* Mutant of get_page_elements: a selector that matches nothing gives the
\* empty list instead of None
get_page_elements_EmptyList(fetch) ==
    IF fetch.kind = "error" THEN <<>>
    ELSE << [i \in 1..Len(fetch.found) |-> ElementData(fetch.found[i])] >>

\* get_page_elements on a fetch that does not raise before the try block:
\* <<>> is None
get_page_elements(fetch) ==
    IF fetch.kind = "error" THEN <<>>
    ELSE IF fetch.found = <<>> THEN <<>>
    ELSE << [i \in 1..Len(fetch.found) |-> ElementData(fetch.found[i])] >>

\* The browser handle when get_page_elements returns: every path inside the
\* try block calls browser.close()
BrowserAfter(fetch) == "closed"

\* The browser handle when get_page_elements raises before its try block:
\* launch itself raised and there is no browser, or new_page or
\* set_extra_http_headers raised and no browser.close() is reached
BrowserAfterRaise == { "none", "open" }

RECURSIVE SelectSoldOut(_)
SelectSoldOut(elements) ==
    IF elements = <<>> THEN <<>>
    ELSE LET rest == SelectSoldOut(Tail(elements))
         IN  IF Contains(Head(elements).text, sold_out_text)
             THEN <<Head(elements)>> \o rest
             ELSE rest

check_sold_out(elements) ==
    IF elements = <<>>
    THEN [is_sold_out |-> FALSE, sold_out_elements |-> <<>>, all_texts |-> <<>>]
    ELSE LET sold_out_elements == SelectSoldOut(elements)
         IN  [is_sold_out |-> Len(sold_out_elements) > 0,
              sold_out_elements |-> sold_out_elements,
              all_texts |-> [i \in 1..Len(elements) |-> elements[i].text]]

\* The result dictionary; details is <<>> for the empty dictionary {}.
check_ticket_status(fetch) ==
    LET elements == get_page_elements(fetch)
    IN  IF elements = <<>>
        THEN [success |-> FALSE, is_sold_out |-> FALSE, sold_out_count |-> 0,
              details |-> <<>>]
        ELSE LET sold_out_result == check_sold_out(elements[1])
             IN  [success |-> TRUE,
                  is_sold_out |-> sold_out_result.is_sold_out,
                  sold_out_count |-> Len(sold_out_result.sold_out_elements),
                  details |-> << [sold_out_elements |-> sold_out_result.sold_out_elements,
                                  all_texts |-> sold_out_result.all_texts,
                                  total_elements |-> Len(elements[1])] >>]

----------------------------------------------------------------------------
(* push.py *)

\* What one call of send_line_broadcast does: HTTP 200, another status, or
\* the request raises.
Deliveries == { "ok", "fail", "raise" }

\* get_line_token: the token, or ValueError when LINE_ACCESS_TOKEN is unset
get_line_token(e) == IF e.LINE_ACCESS_TOKEN THEN <<TRUE>> ELSE <<>>

----------------------------------------------------------------------------
(* main.py: TicketMonitor *)

notification_cooldown == 300
check_interval == 900
RecoveryPause == 30

\* Python's truth value of an Optional[float]: None and 0.0 are false
Truthy(t) == t # <<>> /\ t[1] # 0

NoSend == [requested |-> FALSE, message |-> "", now |-> <<>>,
           called |-> FALSE, ret |-> FALSE]

\* Mutant of send_notification: the time of a failed delivery is recorded too
send_notification_RecordsFailure(token, last, now, delivery) ==
    IF ~token
    THEN [read |-> FALSE, called |-> FALSE, ret |-> FALSE, last |-> last]
    ELSE IF Truthy(last) /\ now - last[1] < notification_cooldown
    THEN [read |-> TRUE, called |-> FALSE, ret |-> FALSE, last |-> last]
    ELSE [read |-> TRUE, called |-> TRUE, ret |-> (delivery = "ok"), last |-> <<now>>]

\* Mutant of send_notification: the Notifier is called without a token
send_notification_IgnoresToken(token, last, now, delivery) ==
    IF Truthy(last) /\ now - last[1] < notification_cooldown
    THEN [read |-> TRUE, called |-> FALSE, ret |-> FALSE, last |-> last]
    ELSE IF delivery = "ok"
    THEN [read |-> TRUE, called |-> TRUE, ret |-> TRUE, last |-> <<now>>]
    ELSE [read |-> TRUE, called |-> TRUE, ret |-> FALSE, last |-> last]

\* TicketMonitor.send_notification with the token `token`, the recorded time
\* `last`, the clock reading `now` and the Notifier's outcome `delivery`:
\* whether time.time() was read, whether send_line_broadcast was called,
\* the returned value and the new last_notification_time.
send_notification(token, last, now, delivery) ==
    IF ~token
    THEN [read |-> FALSE, called |-> FALSE, ret |-> FALSE, last |-> last]
    ELSE IF Truthy(last) /\ now - last[1] < notification_cooldown
    THEN [read |-> TRUE, called |-> FALSE, ret |-> FALSE, last |-> last]
    ELSE IF delivery = "ok"
    THEN [read |-> TRUE, called |-> TRUE, ret |-> TRUE, last |-> <<now>>]
    ELSE [read |-> TRUE, called |-> TRUE, ret |-> FALSE, last |-> last]

\* TicketMonitor.format_notification_message: which of the two messages
format_notification_message(r) ==
    IF ~r.is_sold_out THEN "not_sold_out" ELSE "sold_out"

\* Mutant of NotifyWanted: the send is requested on both classifications
NotifyWanted_Both(r) == TRUE

\* run_single_check decides whether send_notification is requested
NotifyWanted(r) == ~r.is_sold_out

\* The bookkeeping of one send request, shared by both scripts
Notified(message, now, s) ==
    /\ send' = [requested |-> TRUE, message |-> message,
                now |-> IF s.read THEN <<now>> ELSE <<>>,
                called |-> s.called, ret |-> s.ret]
    /\ notifier_calls' = IF s.called THEN notifier_calls + 1 ELSE notifier_calls
    /\ delivered' = IF s.ret THEN Append(delivered, now) ELSE delivered

NotNotified ==
    /\ send' = NoSend
    /\ UNCHANGED <<notifier_calls, delivered>>

\* TicketMonitor.run_single_check on a fetch that returns: `elapsed` seconds
\* pass between the start of the cycle and the reading of the clock.
run_single_check(fetch, elapsed, delivery) ==
    LET r == check_ticket_status(fetch)
        now == clock + elapsed
        s == send_notification(line_token, last_notification_time, now, delivery)
    IN  /\ fetch.kind # "raise"
        /\ unexpected' = <<>>
        /\ browser' = BrowserAfter(fetch)
        /\ result' = <<r>>
        /\ clock' = now
        /\ cycles' = cycles + 1
        /\ IF r.success /\ NotifyWanted(r)
           THEN /\ Notified(format_notification_message(r), now, s)
                /\ last_notification_time' = s.last
           ELSE /\ NotNotified
                /\ UNCHANGED last_notification_time

\* The fetch raises before its try block: the error leaves run_single_check
RaisingCheck(fetch, elapsed) ==
    /\ fetch.kind = "raise"
    /\ unexpected' = <<fetch.class>>
    /\ browser' \in BrowserAfterRaise
    /\ clock' = clock + elapsed
    /\ cycles' = cycles + 1
    /\ NotNotified
    /\ result' = <<>>
    /\ UNCHANGED last_notification_time

----------------------------------------------------------------------------
(* The environment of a run *)

Envs == [TICKET_URL : BOOLEAN, TARGET_CLASS : BOOLEAN, LINE_ACCESS_TOKEN : BOOLEAN]

\* load_dotenv() returns, or raises an error of some class
Dotenvs == { "ok" } \cup ErrorClasses

\* The clock counts the seconds from the epoch; the run starts at 0, and the
\* first reading of the clock comes `elapsed` seconds later
Elapsed == { 0, notification_cooldown - 1, notification_cooldown }

Init ==
    /\ program \in { "main", "check_once" }
    /\ env \in Envs
    /\ pc = "start"
    /\ exit_code = <<>>
    /\ clock = 0
    /\ line_token = FALSE
    /\ last_notification_time = <<>>
    /\ result = <<>>
    /\ send = NoSend
    /\ cycles = 0
    /\ notifier_calls = 0
    /\ delivered = <<>>
    /\ depth = 0
    /\ unexpected = <<>>
    /\ errors = 0
    /\ browser = "none"
    /\ applied = "none"
    /\ input = <<>>
    /\ output = <<>>

\* sys.exit(code), or the process dying of an uncaught error
Exit(code) ==
    /\ pc' = "exited"
    /\ exit_code' = <<code>>

----------------------------------------------------------------------------
(* main.py: main and TicketMonitor.start_monitoring *)

\* main up to the construction of the monitor: the configuration is read,
\* a missing value or an error ends the process with code 1
MainStart(dotenv) ==
    /\ program = "main"
    /\ pc = "start"
    /\ IF dotenv # "ok" \/ ~env.TICKET_URL \/ ~env.TARGET_CLASS
       THEN /\ Exit(1)
            /\ UNCHANGED line_token
       ELSE /\ pc' = "initial_check"
            /\ line_token' = (get_line_token(env) # <<>>)
            /\ UNCHANGED exit_code
    /\ unexpected' = IF dotenv # "ok" THEN <<dotenv>> ELSE <<>>
    /\ UNCHANGED <<program, env, clock, last_notification_time, result, send,
                   cycles, notifier_calls, delivered, depth, errors, browser>>
    /\ UNCHANGED lib

\* Mutant of MainInitialCheck: a failed first check still enters the loop
MainInitialCheck_IgnoresFailure(fetch, elapsed, delivery) ==
    /\ program = "main"
    /\ pc = "initial_check"
    /\ IF fetch.kind = "raise"
       THEN /\ RaisingCheck(fetch, elapsed)
            /\ Exit(1)
            /\ UNCHANGED depth
       ELSE /\ run_single_check(fetch, elapsed, delivery)
            /\ pc' = "monitoring"
            /\ depth' = 1
            /\ UNCHANGED exit_code
    /\ UNCHANGED <<program, env, line_token, errors>>
    /\ UNCHANGED lib

\* main's first check, then the call of start_monitoring
MainInitialCheck(fetch, elapsed, delivery) ==
    /\ program = "main"
    /\ pc = "initial_check"
    /\ IF fetch.kind = "raise"
       THEN /\ RaisingCheck(fetch, elapsed)
            /\ Exit(1)
            /\ UNCHANGED depth
       ELSE /\ run_single_check(fetch, elapsed, delivery)
            /\ IF ~check_ticket_status(fetch).success
               THEN /\ Exit(1)
                    /\ UNCHANGED depth
               ELSE /\ pc' = "monitoring"
                    /\ depth' = 1
                    /\ UNCHANGED exit_code
    /\ UNCHANGED <<program, env, line_token, errors>>
    /\ UNCHANGED lib

\* Mutant of MonitorCycle: a failed check ends the process, as in main
MonitorCycle_StopsOnFailure(fetch, elapsed, delivery) ==
    /\ program = "main"
    /\ pc = "monitoring"
    /\ cycles < MaxCycles
    /\ IF fetch.kind = "raise"
       THEN /\ RaisingCheck(fetch, elapsed)
            /\ pc' = "recovering"
            /\ errors' = errors + 1
            /\ UNCHANGED exit_code
       ELSE /\ run_single_check(fetch, elapsed, delivery)
            /\ IF check_ticket_status(fetch).success
               THEN pc' = "sleeping" /\ UNCHANGED exit_code
               ELSE Exit(1)
            /\ UNCHANGED errors
    /\ UNCHANGED <<program, env, line_token, depth>>
    /\ UNCHANGED lib

\* One pass of the body of start_monitoring's loop, up to the sleep
MonitorCycle(fetch, elapsed, delivery) ==
    /\ program = "main"
    /\ pc = "monitoring"
    /\ cycles < MaxCycles
    /\ IF fetch.kind = "raise"
       THEN /\ RaisingCheck(fetch, elapsed)
            /\ pc' = "recovering"
            /\ errors' = errors + 1
       ELSE /\ run_single_check(fetch, elapsed, delivery)
            /\ pc' = "sleeping"
            /\ UNCHANGED errors
    /\ UNCHANGED <<program, env, exit_code, line_token, depth>>
    /\ UNCHANGED lib

\* Mutant of Sleep: the loop goes on without waiting
Sleep_NoWait ==
    /\ program = "main"
    /\ pc = "sleeping"
    /\ pc' = "monitoring"
    /\ result' = <<>>
    /\ unexpected' = <<>>
    /\ NotNotified
    /\ UNCHANGED <<program, env, exit_code, clock, line_token,
                   last_notification_time, cycles, depth, errors, browser>>
    /\ UNCHANGED lib

\* time.sleep(check_interval) at the end of the loop body
Sleep ==
    /\ program = "main"
    /\ pc = "sleeping"
    /\ clock' = clock + check_interval
    /\ pc' = "monitoring"
    /\ result' = <<>>
    /\ unexpected' = <<>>
    /\ NotNotified
    /\ UNCHANGED <<program, env, exit_code, line_token, last_notification_time,
                   cycles, depth, errors, browser>>
    /\ UNCHANGED lib

\* Mutant of Recover: the restart builds a fresh NotificationState
Recover_ResetsState ==
    /\ program = "main"
    /\ pc = "recovering"
    /\ clock' = clock + RecoveryPause
    /\ depth' = depth + 1
    /\ pc' = "monitoring"
    /\ result' = <<>>
    /\ unexpected' = <<>>
    /\ send' = NoSend
    /\ last_notification_time' = <<>>
    /\ UNCHANGED <<program, env, exit_code, line_token, cycles, errors,
                   browser, notifier_calls, delivered>>
    /\ UNCHANGED lib

\* Mutant of Recover: the restart goes back to the loop of the same
\* activation instead of calling start_monitoring again
Recover_Loops ==
    /\ program = "main"
    /\ pc = "recovering"
    /\ clock' = clock + RecoveryPause
    /\ pc' = "monitoring"
    /\ result' = <<>>
    /\ unexpected' = <<>>
    /\ NotNotified
    /\ UNCHANGED <<program, env, exit_code, line_token, last_notification_time,
                   cycles, depth, errors, browser>>
    /\ UNCHANGED lib

\* The handler of an unexpected error: time.sleep(30), then start_monitoring
\* calls itself
Recover ==
    /\ program = "main"
    /\ pc = "recovering"
    /\ clock' = clock + RecoveryPause
    /\ depth' = depth + 1
    /\ pc' = "monitoring"
    /\ result' = <<>>
    /\ unexpected' = <<>>
    /\ NotNotified
    /\ UNCHANGED <<program, env, exit_code, line_token, last_notification_time,
                   cycles, errors, browser>>
    /\ UNCHANGED lib

\* KeyboardInterrupt: caught by the try of start_monitoring (sys.exit(0));
\* anywhere else no handler catches it and the interpreter ends with 130
Interrupt ==
    /\ program = "main"
    /\ pc # "exited"
    /\ Exit(IF pc \in { "monitoring", "sleeping" } THEN 0 ELSE 130)
    /\ result' = <<>>
    /\ unexpected' = <<"KeyboardInterrupt">>
    /\ NotNotified
    /\ UNCHANGED <<program, env, clock, line_token, last_notification_time,
                   cycles, depth, errors, browser>>
    /\ UNCHANGED lib

----------------------------------------------------------------------------
(* check_once.py *)

\* Mutant of send_notification_if_available: the broadcast is never made
send_notification_if_available_Skips(e, delivery) ==
    [read |-> FALSE, called |-> FALSE, ret |-> FALSE]

\* send_notification_if_available: get_line_token raises without a token and
\* the error is caught; otherwise send_line_broadcast is called once
send_notification_if_available(e, delivery) ==
    IF get_line_token(e) = <<>>
    THEN [read |-> FALSE, called |-> FALSE, ret |-> FALSE]
    ELSE [read |-> FALSE, called |-> TRUE, ret |-> (delivery = "ok")]

\* check_once.format_notification_message: "" when sold out
format_notification_message_once(r) ==
    IF ~r.is_sold_out THEN "available" ELSE ""

\* The except clauses of check_once.main
ExitCodeOfError(class) == IF class = "ValueError" THEN 2 ELSE 3

\* Mutant of ExitCodeOfCheck: a completed check always exits with 0
ExitCodeOfCheck_Zero(r) == 0

\* The exit code after a completed check
ExitCodeOfCheck(r) == IF r.is_sold_out THEN 0 ELSE 1

\* Mutant of OnceNotifies: every successful check notifies
OnceNotifies_Both(r) == TRUE

\* Whether main sends a notification after a successful check: the branch on
\* is_sold_out, then the test of the formatted message
OnceNotifies(r) ==
    ~r.is_sold_out /\ format_notification_message_once(r) # ""

\* check_once.main up to the creation of the checker
OnceStart(dotenv) ==
    /\ program = "check_once"
    /\ pc = "start"
    /\ IF dotenv # "ok"
       THEN Exit(ExitCodeOfError(dotenv))
       ELSE IF ~env.TICKET_URL \/ ~env.TARGET_CLASS
       THEN Exit(ExitCodeOfError("ValueError"))
       ELSE /\ pc' = "check"
            /\ UNCHANGED exit_code
    /\ unexpected' = IF dotenv # "ok" THEN <<dotenv>> ELSE <<>>
    /\ UNCHANGED <<program, env, clock, line_token, last_notification_time,
                   result, send, cycles, notifier_calls, delivered, depth,
                   errors, browser>>
    /\ UNCHANGED lib

\* check_once.main from the check to the exit
OnceCheck(fetch, elapsed, delivery) ==
    /\ program = "check_once"
    /\ pc = "check"
    /\ cycles' = cycles + 1
    /\ clock' = clock + elapsed
    /\ unexpected' = IF fetch.kind = "raise" THEN <<fetch.class>> ELSE <<>>
    /\ IF fetch.kind = "raise"
       THEN /\ Exit(ExitCodeOfError(fetch.class))
            /\ NotNotified
            /\ result' = <<>>
            /\ browser' \in BrowserAfterRaise
       ELSE LET r == check_ticket_status(fetch)
                message == format_notification_message_once(r)
                s == send_notification_if_available(env, delivery)
            IN  /\ result' = <<r>>
                /\ browser' = BrowserAfter(fetch)
                /\ IF ~r.success
                   THEN /\ Exit(1)
                        /\ NotNotified
                   ELSE /\ Exit(ExitCodeOfCheck(r))
                        /\ IF OnceNotifies(r)
                           THEN Notified(message, clock + elapsed, s)
                           ELSE NotNotified
    /\ UNCHANGED <<program, env, line_token, last_notification_time, depth,
                   errors>>
    /\ UNCHANGED lib

----------------------------------------------------------------------------

Next ==
    \/ \E dotenv \in Dotenvs : MainStart(dotenv)
    \/ \E fetch \in Fetches, elapsed \in Elapsed, delivery \in Deliveries :
           MainInitialCheck(fetch, elapsed, delivery)
    \/ \E fetch \in Fetches, elapsed \in Elapsed, delivery \in Deliveries :
           MonitorCycle(fetch, elapsed, delivery)
    \/ Sleep
    \/ Recover
    \/ Interrupt
    \/ \E dotenv \in Dotenvs : OnceStart(dotenv)
    \/ \E fetch \in Fetches, elapsed \in Elapsed, delivery \in Deliveries :
           OnceCheck(fetch, elapsed, delivery)

Spec == Init /\ [][Next]_vars

\* The loop stands before a check that MonitorCycle can make
AtLoopTop == program = "main" /\ pc = "monitoring" /\ cycles < MaxCycles

\* Weak fairness of the loop's check, WF_vars(\E fetch, elapsed, delivery :
\* MonitorCycle(fetch, elapsed, delivery)), in its state form: MonitorCycle
\* is enabled exactly in the states of AtLoopTop and every step of it leaves
\* them, so the check is taken infinitely often or disabled infinitely often
\* exactly when the loop is infinitely often away from its top.
FairMonitorCycle == []<>~AtLoopTop

\* The program makes progress on its own: a sleep returns, and the loop
\* runs its next check.  The user's interrupt is under no fairness.
FairSpec ==
    /\ Spec
    /\ WF_vars(Sleep)
    /\ WF_vars(Recover)
    /\ FairMonitorCycle

----------------------------------------------------------------------------
(* ticket_checker.py used directly: one of its functions applied to an     *)
(* argument                                                                *)

\* The texts of the elements handed to check_sold_out: the stripped texts
\* of the page, the empty text, and a text that starts with the marker
ClassifierTexts ==
    { Strip(t) : t \in InnerTexts } \cup { <<>>, sold_out_text \o <<"!">> }

ClassifierElements == { [tag_name |-> "div", text |-> t] : t \in ClassifierTexts }

\* The arguments of check_sold_out: None (<<>>) or a list <<l>>
ClassifierArgs ==
    { <<>> } \cup { <<l>> : l \in SeqsUpTo(ClassifierElements, MaxClassified) }

LibInit ==
    /\ program = "ticket_checker"
    /\ env = [TICKET_URL |-> TRUE, TARGET_CLASS |-> TRUE, LINE_ACCESS_TOKEN |-> TRUE]
    /\ pc = "start"
    /\ exit_code = <<>>
    /\ clock = 0
    /\ line_token = FALSE
    /\ last_notification_time = <<>>
    /\ result = <<>>
    /\ send = NoSend
    /\ cycles = 0
    /\ notifier_calls = 0
    /\ delivered = <<>>
    /\ depth = 0
    /\ unexpected = <<>>
    /\ errors = 0
    /\ browser = "none"
    /\ applied = "none"
    /\ input = <<>>
    /\ output = <<>>

\* check_sold_out(arg): `not elements` holds of None and of the empty list
ApplyCheckSoldOut(arg) ==
    /\ program = "ticket_checker"
    /\ applied = "none"
    /\ applied' = "check_sold_out"
    /\ input' = arg
    /\ output' = << check_sold_out(IF arg = <<>> THEN <<>> ELSE arg[1]) >>
    /\ UNCHANGED <<program, env, pc, exit_code, clock, line_token,
                   last_notification_time, result, send, cycles,
                   notifier_calls, delivered, depth, unexpected, errors,
                   browser>>

\* check_ticket_status on a fetch that returns
ApplyCheckTicketStatus(fetch) ==
    /\ program = "ticket_checker"
    /\ applied = "none"
    /\ fetch.kind # "raise"
    /\ applied' = "check_ticket_status"
    /\ input' = <<fetch>>
    /\ output' = << check_ticket_status(fetch) >>
    /\ browser' = BrowserAfter(fetch)
    /\ UNCHANGED <<program, env, pc, exit_code, clock, line_token,
                   last_notification_time, result, send, cycles,
                   notifier_calls, delivered, depth, unexpected, errors>>

LibNext ==
    \/ \E arg \in ClassifierArgs : ApplyCheckSoldOut(arg)
    \/ \E fetch \in Fetches : ApplyCheckTicketStatus(fetch)

LibSpec == LibInit /\ [][LibNext]_vars

----------------------------------------------------------------------------
(* Shorthands for the properties *)

\* The last step ran a check that returned a result
Checked == result # <<>>

CheckOK == Checked /\ result[1].success

\* The seconds between the recorded delivery and the clock reading of the
\* send made by the step
SinceLast == send'.now[1] - last_notification_time[1]

----------------------------------------------------------------------------
(* Properties *)

\* C1: with a credential, a send request is permitted when no delivery has
\* succeeded yet; after a delivery recorded at now1 (any now1, 0 included) a
\* request at now2 is suppressed (no Notifier call, false returned) when
\* now2 - now1 < notification_cooldown and permitted (Notifier called) when
\* now2 - now1 >= notification_cooldown.
C1_CooldownRule ==
    [][ (program = "main" /\ line_token /\ send'.requested) =>
           IF last_notification_time = <<>>
           THEN send'.called
           ELSE IF SinceLast < notification_cooldown
           THEN ~send'.called /\ ~send'.ret
           ELSE send'.called ]_vars

\* C2: any two successful deliveries of an execution are at least
\* notification_cooldown apart (of two not-sold-out cycles less than the
\* cooldown apart, only the first is delivered).
C2_DeliveriesApart ==
    \A i, j \in 1..Len(delivered) :
        i < j => delivered[j] - delivered[i] >= notification_cooldown

\* C3: last_notification_time changes only in a step whose send the Notifier
\* confirmed, and is then the time of that send; every other step (failed or
\* raising delivery, suppressed send, no credential, sold out, fetch failure,
\* sleep, recovery) leaves it unchanged.
C3_OnlyConfirmedSendRecords ==
    [][ /\ last_notification_time' # last_notification_time =>
             /\ send'.requested /\ send'.called /\ send'.ret
             /\ last_notification_time' = send'.now
        /\ ~(send'.called /\ send'.ret) =>
             last_notification_time' = last_notification_time ]_vars

\* C3 witness: a delivery has just failed after an earlier attempt was made,
\* and no time is recorded: the earlier failure did not suppress this send.
C3_Witness ==
    /\ program = "main"
    /\ send.called /\ ~send.ret
    /\ notifier_calls >= 2
    /\ last_notification_time = <<>>

\* C4: single-check mode never calls the Notifier in a run whose check
\* succeeds with is_sold_out = true: the call count is 0 when it exits.
C4_SoldOutNeverNotifies ==
    (program = "check_once" /\ CheckOK /\ result[1].is_sold_out) =>
        /\ ~send.requested /\ ~send.called
        /\ notifier_calls = 0
        /\ pc = "exited"

C4_Witness ==
    /\ program = "check_once" /\ CheckOK /\ result[1].is_sold_out
    /\ env.LINE_ACCESS_TOKEN
    /\ pc = "exited"

\* C5: single-check mode, fetch failure: success = false, no notification is
\* attempted, and the process ends with a code that is neither the code of
\* "sold out" nor the code of "tickets available".
C5_FailureCodeDistinct ==
    (program = "check_once" /\ Checked /\ ~result[1].success) =>
        /\ ~send.requested /\ notifier_calls = 0
        /\ pc = "exited"
        /\ exit_code # <<ExitCodeOfCheck([is_sold_out |-> TRUE])>>
        /\ exit_code # <<ExitCodeOfCheck([is_sold_out |-> FALSE])>>

\* C6: single-check mode, after a successful check the exit code is 0 exactly
\* when sold out and 1 exactly when not sold out, whatever the notification
\* did.
C6_ExitCodeByClassification ==
    (program = "check_once" /\ CheckOK) =>
        /\ pc = "exited"
        /\ exit_code = <<0>> <=> result[1].is_sold_out
        /\ exit_code = <<1>> <=> ~result[1].is_sold_out

\* C6 witness: not sold out, the delivery was attempted and did not succeed
C6_Witness ==
    /\ program = "check_once" /\ CheckOK /\ ~result[1].is_sold_out
    /\ send.called /\ ~send.ret
    /\ exit_code = <<1>>

\* C7: single-check mode ends with code 2 exactly when TICKET_URL or
\* TARGET_CLASS is missing, before any fetch or notification; with code 3 for
\* any other error escaping the run; with 2 or 3 in no other situation.
C7_ConfigAndErrorCodes ==
    (program = "check_once" /\ pc = "exited") =>
        LET missing == ~env.TICKET_URL \/ ~env.TARGET_CLASS
        IN  /\ (missing /\ unexpected = <<>>) => exit_code = <<2>>
            /\ exit_code = <<2>> =>
                  (missing /\ cycles = 0 /\ notifier_calls = 0)
            /\ (~missing /\ unexpected # <<>>) => exit_code = <<3>>
            /\ exit_code = <<3>> => unexpected # <<>>

\* C8 as stated: every single-check run whose check succeeds not sold out
\* makes exactly one call of the Notifier.
C8_ExactlyOneCall ==
    (program = "check_once" /\ CheckOK /\ ~result[1].is_sold_out) =>
        notifier_calls = 1

\* C8 amended: such a run makes exactly one notification attempt, which
\* calls the Notifier once when LINE_ACCESS_TOKEN is set and not at all when
\* it is missing; nothing recorded by an earlier run suppresses it.
C8_OneAttempt ==
    (program = "check_once" /\ CheckOK /\ ~result[1].is_sold_out) =>
        /\ send.requested
        /\ send.called <=> env.LINE_ACCESS_TOKEN
        /\ notifier_calls = (IF env.LINE_ACCESS_TOKEN THEN 1 ELSE 0)
        /\ last_notification_time = <<>>
        /\ pc = "exited"

C8_Witness ==
    /\ program = "check_once" /\ CheckOK /\ ~result[1].is_sold_out
    /\ env.LINE_ACCESS_TOKEN
    /\ notifier_calls = 1

\* C9 as stated: in continuous mode every cycle whose check succeeds, sold
\* out or not, formats a message and requests the send.
C9_NotifiesOnBoth ==
    (program = "main" /\ CheckOK) => (send.requested /\ send.message # "")

\* C9 amended: in continuous mode a cycle whose check succeeds formats a
\* message and requests the send exactly when the classification is not sold
\* out (the Notifier is then called when a credential is present and the
\* cooldown permits); a sold-out cycle requests nothing.
C9_NotifiesWhenAvailable ==
    [][ (program = "main" /\ result' # <<>> /\ result'[1].success) =>
           /\ send'.requested <=> ~result'[1].is_sold_out
           /\ send'.requested => send'.message = "not_sold_out"
           /\ ~send'.requested => (send'.message = "" /\ ~send'.called)
           /\ ( /\ send'.requested /\ line_token
                /\ \/ last_notification_time = <<>>
                   \/ SinceLast >= notification_cooldown ) => send'.called ]_vars

\* C9 witness: a sold-out cycle of the monitoring loop, nothing requested
C9_Witness ==
    /\ program = "main" /\ pc = "sleeping"
    /\ CheckOK /\ result[1].is_sold_out
    /\ line_token
    /\ ~send.requested

\* C10: in the continuous flow the Notifier is called only in a cycle whose
\* fetch succeeded and whose classification is not sold out.
C10_PushOnlyWhenAvailable ==
    [][ (program = "main" /\ (notifier_calls' # notifier_calls \/ send'.called)) =>
           /\ result' # <<>>
           /\ result'[1].success
           /\ ~result'[1].is_sold_out ]_vars

C10_Witness ==
    /\ program = "main" /\ pc = "sleeping"
    /\ send.called
    /\ notifier_calls = 2

\* The user's interrupt arrived in the step
Interrupted == unexpected' = <<"KeyboardInterrupt">>

\* C11: in the monitoring loop a fetch failure never stops the controller and
\* never starts the recovery: the controller sleeps for check_interval and
\* then checks again (unless the user interrupts).
C11_FetchFailureRetried ==
    /\ [][ ( /\ program = "main" /\ pc = "monitoring"
             /\ result' # <<>> /\ ~result'[1].success ) =>
              /\ pc' = "sleeping"
              /\ exit_code' = <<>>
              /\ unexpected' = <<>>
              /\ depth' = depth /\ errors' = errors ]_vars
    /\ [][ (program = "main" /\ pc = "sleeping" /\ pc' # "sleeping") =>
              \/ pc' = "monitoring" /\ clock' = clock + check_interval
              \/ Interrupted ]_vars
    /\ \A k \in 1..(MaxCycles - 1) :
           (program = "main" /\ pc = "sleeping" /\ cycles = k)
               ~> (cycles > k \/ pc = "exited")

\* C11 witness: the second cycle of the loop failed to fetch and the
\* controller sleeps
C11_Witness ==
    /\ program = "main" /\ pc = "sleeping"
    /\ Checked /\ ~result[1].success
    /\ cycles = 3

\* C12: a user interrupt in any controller state (initial check, checking,
\* notifying, sleeping, recovery pause) stops the controller with exit code 0.
C12_InterruptStopsCleanly ==
    [][ ( /\ program = "main"
          /\ pc \in { "initial_check", "monitoring", "sleeping", "recovering" }
          /\ Interrupted ) =>
           (pc' = "exited" /\ exit_code' = <<0>>) ]_vars

\* C13: continuous mode exits with 1 when configuration is missing or the
\* first check fails, and then the loop was never entered; with 0 only on the
\* user's stop; once the loop is entered no fetch failure, delivery failure
\* or unexpected error of a cycle ends the process.
C13_ExitCodes ==
    /\ [] ( (program = "main" /\ pc = "exited") =>
              /\ exit_code = <<1>> => depth = 0
              /\ exit_code = <<0>> =>
                   (unexpected = <<"KeyboardInterrupt">> /\ depth >= 1)
              /\ ( /\ ~env.TICKET_URL \/ ~env.TARGET_CLASS
                   /\ unexpected # <<"KeyboardInterrupt">> ) =>
                   (exit_code = <<1>> /\ cycles = 0 /\ depth = 0)
              /\ (Checked /\ ~result[1].success) =>
                   (exit_code = <<1>> /\ cycles = 1 /\ depth = 0) )
    /\ [][ ( /\ program = "main" /\ pc = "initial_check"
             /\ result' # <<>> /\ ~result'[1].success ) =>
              (pc' = "exited" /\ exit_code' = <<1>> /\ depth' = 0) ]_vars
    /\ [][ (program = "main" /\ depth >= 1 /\ pc # "exited" /\ pc' = "exited") =>
              Interrupted ]_vars

\* C13 witness: the first check failed and the process ended with 1
C13_Witness ==
    /\ program = "main" /\ pc = "exited"
    /\ Checked /\ ~result[1].success
    /\ exit_code = <<1>>

\* C14: without LINE_ACCESS_TOKEN monitoring starts and cycles as with one;
\* the Notifier is never called and last_notification_time stays unset.
C14_NoCredentialNonFatal ==
    /\ [] ( (program = "main" /\ ~env.LINE_ACCESS_TOKEN) =>
              /\ ~line_token
              /\ notifier_calls = 0 /\ ~send.called /\ delivered = <<>>
              /\ last_notification_time = <<>> )
    /\ [][ (program = "main" /\ pc = "start" /\ unexpected' = <<>>
            /\ env.TICKET_URL /\ env.TARGET_CLASS) =>
              pc' = "initial_check" ]_vars
    /\ [][ (program = "main" /\ ~env.LINE_ACCESS_TOKEN /\ send'.requested) =>
              (pc' \in { "monitoring", "sleeping" } /\ exit_code' = <<>>) ]_vars

\* C14 witness: no token, the second cycle of the loop asked for a send and
\* the controller sleeps
C14_Witness ==
    /\ program = "main" /\ ~env.LINE_ACCESS_TOKEN
    /\ pc = "sleeping" /\ cycles = 3
    /\ send.requested

\* The reference definition of "text contains the marker": the marker's
\* characters stand at consecutive positions of the text from some position k
HasMarker(text) ==
    \E k \in 1..Len(text) :
        \A m \in 1..Len(sold_out_text) :
            /\ k + m - 1 <= Len(text)
            /\ text[k + m - 1] = sold_out_text[m]

ElementHasMarker(e) == HasMarker(e.text)

\* C15: check_sold_out against its reference definition, for every element
\* sequence, the empty and the absent one included: sold_out_elements is the
\* subsequence, in input order, of the elements whose text contains the
\* marker; is_sold_out holds exactly when it is non-empty; all_texts lists
\* every text in input order; a repeated call gives the same result.
C15_ClassifierReference ==
    (applied = "check_sold_out") =>
        LET elements == IF input = <<>> THEN <<>> ELSE input[1]
            r == output[1]
        IN  /\ r.sold_out_elements = SelectSeq(elements, ElementHasMarker)
            /\ r.is_sold_out <=> r.sold_out_elements # <<>>
            /\ r.is_sold_out <=>
                   \E i \in 1..Len(elements) : HasMarker(elements[i].text)
            /\ r.all_texts = [i \in 1..Len(elements) |-> elements[i].text]
            /\ elements = <<>> =>
                   r = [is_sold_out |-> FALSE, sold_out_elements |-> <<>>,
                        all_texts |-> <<>>]
            /\ check_sold_out(elements) = r

\* C15 witness: three elements, the first without the marker, two with it
C15_Witness ==
    /\ applied = "check_sold_out"
    /\ input # <<>> /\ Len(input[1]) = 3
    /\ ~HasMarker(input[1][1].text)
    /\ Len(output[1].sold_out_elements) = 2

\* C16: check_ticket_status fails exactly when the fetch gave the failure
\* signal (an error in the navigation, or no element matched); a failure
\* carries no classification; a success carries one, with total_elements >= 1
\* equal to the number of texts, sold_out_count equal to the number of
\* matching elements, and is_sold_out = (sold_out_count > 0).
C16_CheckOutcome ==
    (applied = "check_ticket_status") =>
        LET fetch == input[1]
            r == output[1]
        IN  /\ ~r.success <=> (fetch.kind = "error" \/ fetch.found = <<>>)
            /\ ~r.success =>
                   /\ r.details = <<>>
                   /\ ~r.is_sold_out
                   /\ r.sold_out_count = 0
            /\ r.success =>
                   /\ r.details # <<>>
                   /\ r.details[1].total_elements >= 1
                   /\ r.details[1].total_elements = Len(r.details[1].all_texts)
                   /\ r.details[1].total_elements = Len(fetch.found)
                   /\ r.sold_out_count = Len(r.details[1].sold_out_elements)
                   /\ r.is_sold_out <=> r.sold_out_count > 0

\* C16 witness: two elements fetched, one of them sold out
C16_Witness ==
    /\ applied = "check_ticket_status"
    /\ output[1].success /\ output[1].is_sold_out
    /\ output[1].sold_out_count = 1
    /\ output[1].details[1].total_elements = 2

\* C17 (as stated): after every check, the initial one included, the
\* controller sleeps or pauses before the next check starts.
C17_SleepBetweenChecks ==
    [][ (program = "main" /\ cycles' = cycles + 1 /\ pc' # "exited") =>
           pc' \in { "sleeping", "recovering" } ]_vars

\* C17 (amended): checks are single steps, one at a time; a check of the
\* monitoring loop ends in a sleep of check_interval or in the recovery pause,
\* and the loop's next check starts only after that wait; the first check of
\* the loop follows the successful initial check with no wait in between.
C17_SleepBetweenLoopChecks ==
    /\ [][ (program = "main") => cycles' \in { cycles, cycles + 1 } ]_vars
    /\ [][ (program = "main" /\ pc = "monitoring" /\ cycles' = cycles + 1) =>
              pc' \in { "sleeping", "recovering" } ]_vars
    /\ [][ (program = "main" /\ pc # "monitoring" /\ pc' = "monitoring") =>
              \/ /\ pc = "sleeping"
                 /\ clock' = clock + check_interval
                 /\ cycles' = cycles
              \/ /\ pc = "recovering"
                 /\ clock' = clock + RecoveryPause
                 /\ cycles' = cycles
              \/ /\ pc = "initial_check"
                 /\ cycles' = cycles + 1
                 /\ result' # <<>> /\ result'[1].success ]_vars

\* C17 witness: the loop is about to make its second check, after a sleep
C17_Witness ==
    /\ program = "main" /\ pc = "monitoring"
    /\ cycles = 2 /\ errors = 0
    /\ clock >= check_interval

\* C18: an unexpected error escaping a cycle of the loop leads to the pause
\* of 30 s and then to a restart of monitoring with the same configuration,
\* credential and NotificationState; unless the user interrupts, a new check
\* follows every such error.
C18_RecoveryRestarts ==
    /\ [][ ( /\ program = "main" /\ pc = "monitoring"
             /\ unexpected' # <<>> /\ ~Interrupted ) =>
              (pc' = "recovering" /\ exit_code' = <<>>) ]_vars
    /\ [][ (program = "main" /\ pc = "recovering" /\ pc' # "recovering") =>
              \/ Interrupted
              \/ /\ pc' = "monitoring"
                 /\ clock' = clock + RecoveryPause
                 /\ env' = env
                 /\ line_token' = line_token
                 /\ last_notification_time' = last_notification_time ]_vars
    /\ \A k \in 1..(MaxCycles - 1) :
           (program = "main" /\ pc = "recovering" /\ cycles = k)
               ~> (cycles > k \/ pc = "exited")

\* C18 witness: a check made after a recovery, the time of the notification
\* sent before the error still recorded
C18_Witness ==
    /\ program = "main" /\ pc = "sleeping"
    /\ errors = 1 /\ cycles = 3
    /\ Checked
    /\ last_notification_time # <<>>

C20_RestartNesting ==
    /\ [] ( program = "main" =>
              /\ pc \in { "start", "initial_check" } => depth = 0
              /\ pc \in { "monitoring", "sleeping" } => depth = 1 + errors
              /\ pc = "recovering" => depth = 1 + (errors - 1) )
    /\ [][ depth' >= depth ]_vars
    /\ [][ (program = "main" /\ pc = "recovering" /\ pc' = "monitoring") =>
              depth' = depth + 1 ]_vars
    /\ [] ( (program = "main" /\ pc = "recovering") => ENABLED Recover )

\* C20 witness: two errors recovered, three nested activations
C20_Witness ==
    /\ program = "main" /\ pc = "monitoring"
    /\ errors = 2 /\ depth = 3

====
